---- MODULE Spec2Model ----
(***************************************************************************)
(* Model of src/tool.py: the iMaps coal-pillar elevation tool.  The script *)
(* is a straight-line sequence of six geoprocessing stages, each wrapped   *)
(* in try/except (the first two also in finally), run once per invocation. *)
(* The arcpy calls are external: each one either returns or raises         *)
(* arcpy.ExecuteError, chosen nondeterministically.  What the script       *)
(* itself does is modelled exactly: the paths it builds, the order of its  *)
(* calls, its license check-out/check-in, its messages, sys.exit and the   *)
(* per-row subtraction.                                                    *)
(*                                                                         *)
(* Text is modelled as a sequence of one-character strings.                *)
(***************************************************************************)
EXTENDS Integers, Sequences, FiniteSets, TLC

VARIABLES
    out_gdb, pad_num, coal_seam,   \* tool parameters 0..2 (text)
    pc,          \* position of the script
    pending,     \* exception travelling through a finally block
    exit_status, \* how the run ended
    licenses,    \* extensions this run holds checked out
    lic_log,     \* CheckExtension / CheckOutExtension / CheckInExtension calls, in order
    calls,       \* geoprocessing operations invoked, in order
    result,      \* per stage: how its operation ended
    messages,    \* AddMessage / AddError calls, in order
    datasets,    \* dataset path -> rows, for every dataset a stage has written
    cursor       \* index of the row the update cursor is on (0: not open)

vars == <<out_gdb, pad_num, coal_seam, pc, pending, exit_status, licenses,
          lic_log, calls, result, messages, datasets, cursor>>

----------------------------------------------------------------------------
\* Bounds of the model
MaxRows == 2      \* rows of the extracted point feature class
MaxElev == 1      \* elevations range over 0..MaxElev

----------------------------------------------------------------------------
\* Text and paths

Seps == {"\\", "/"}

\* os.path.join(a, b) for drive-less paths: an absolute b replaces a, otherwise
\* b is appended with one separator between.
join(a, b) ==
    IF b # <<>> /\ b[1] \in Seps THEN b
    ELSE IF a # <<>> /\ a[Len(a)] \notin Seps THEN a \o <<"\\">> \o b
    ELSE a \o b

create_out_path(file) ==
    join(out_gdb, pad_num \o <<"_">> \o coal_seam \o <<"_">> \o file)

\* values the text parameters are drawn from
OutGdbs   == { <<"g">>, <<"d", "/">>, <<>> }
PadNums   == { <<"P", "1">>, <<"/", "P">> }
CoalSeams == { <<"U", "F">>, <<>> }

elev_pts == <<"p", "t", "s">>
in_dem   == <<"d", "e", "m">>
pillars  == <<"p", "i", "l">>

\* file-name literals of the script
txt_Extract        == <<"E","x","t","r","a","c","t">>
txt_Extract_shp    == <<"E","x","t","r","a","c","t",".","s","h","p">>
txt_IDWElev        == <<"I","D","W","E","l","e","v">>
txt_IDWElev_Points == <<"I","D","W","E","l","e","v","_","P","o","i","n","t","s">>
txt_Pillars_SJ     == <<"P","i","l","l","a","r","s","_","S","p","a","t","i","a","l","J","o","i","n","I","D","W">>

\* local variables of the six stages
evp_in_pt_features  == elev_pts
evp_in_raster       == in_dem
evp_out_pt_features == create_out_path(txt_Extract)

idw_in_pt_features  == create_out_path(txt_Extract)
idw_out_raster      == create_out_path(txt_IDWElev)

\* Faulty variant of rtp_in_raster: the name of the stage's own output.
rtp_in_raster_wrong == create_out_path(txt_IDWElev_Points)
rtp_in_raster       == create_out_path(txt_IDWElev)
rtp_out_pt          == create_out_path(txt_IDWElev_Points)

af_in_features      == create_out_path(txt_Extract_shp)

uc_fc               == create_out_path(txt_Extract)

sj_target_features  == pillars
sj_join_features    == create_out_path(txt_IDWElev_Points)
sj_outfc            == create_out_path(txt_Pillars_SJ)

----------------------------------------------------------------------------
\* Stages and their data

Stages == {"EVP", "IDW", "RTP", "AF", "UC", "SJ"}
StageOrder == <<"EVP", "IDW", "RTP", "AF", "UC", "SJ">>

\* A field value is <<v>>, or <<>> for None (a null field).
None == <<>>
Elevs == { <<v>> : v \in 0..MaxElev } \cup {None}

\* Rows as ExtractValuesToPoints leaves them: ELEVATION from the input
\* points, RASTERVALU from the DEM, DEPTH not yet computed.
NewRows == { [DEPTH |-> None, RASTERVALU |-> r, ELEVATION |-> e] : r \in Elevs, e \in Elevs }
RowSeqs == UNION { [1..n -> NewRows] : n \in 0..MaxRows }

\* the dataset store after `path` is (over)written with `rows`
Written(path, rows) ==
    [p \in DOMAIN datasets \cup {path} |-> IF p = path THEN rows ELSE datasets[p]]

Call(op, ins, out) == [op |-> op, ins |-> ins, out |-> out]
LicCall(fn, ext) == [fn |-> fn, ext |-> ext]
Msg(kind, text) == [kind |-> kind, text |-> text]

AddMessage(text) == messages' = Append(messages, Msg("Message", text))
AddError(text)   == messages' = Append(messages, Msg("Error", text))

Params == <<out_gdb, pad_num, coal_seam>>

----------------------------------------------------------------------------
Init ==
    /\ out_gdb \in OutGdbs
    /\ pad_num \in PadNums
    /\ coal_seam \in CoalSeams
    /\ pc = "evp_check"
    /\ pending = "none"
    /\ exit_status = "running"
    /\ licenses = {}
    /\ lic_log = <<>>
    /\ calls = <<>>
    /\ result = [s \in Stages |-> "none"]
    /\ messages = <<>>
    /\ datasets = <<>>
    /\ cursor = 0

----------------------------------------------------------------------------
\* Stage 1: Extract Values to Points (license 'Spatial')

\* if arcpy.CheckExtension('Spatial') == 'Available': ... else: raise LicenseError
evp_check ==
    /\ pc = "evp_check"
    /\ \E status \in {"Available", "Unavailable"} :
         /\ lic_log' = Append(lic_log, LicCall("CheckExtension", "Spatial"))
         /\ IF status = "Available"
            THEN /\ pc' = "evp_checkout"
                 /\ UNCHANGED result
            ELSE /\ pc' = "evp_except_license"
                 /\ result' = [result EXCEPT !["EVP"] = "LicenseError"]
    /\ UNCHANGED <<Params, pending, exit_status, licenses, calls, messages, datasets, cursor>>

evp_checkout ==
    /\ pc = "evp_checkout"
    /\ licenses' = licenses \cup {"Spatial"}
    /\ lic_log' = Append(lic_log, LicCall("CheckOutExtension", "Spatial"))
    /\ pc' = "evp_exec"
    /\ UNCHANGED <<Params, pending, exit_status, calls, result, messages, datasets, cursor>>

\* arcpy.sa.ExtractValuesToPoints(...): returns, or raises ExecuteError
evp_exec ==
    /\ pc = "evp_exec"
    /\ calls' = Append(calls, Call("EVP", {evp_in_pt_features, evp_in_raster},
                                   evp_out_pt_features))
    /\ \/ \E rows \in RowSeqs :
            /\ datasets' = Written(evp_out_pt_features, rows)
            /\ result' = [result EXCEPT !["EVP"] = "ok"]
            /\ pc' = "evp_msg"
       \/ /\ result' = [result EXCEPT !["EVP"] = "ExecuteError"]
          /\ pc' = "evp_except_exec"
          /\ UNCHANGED datasets
    /\ UNCHANGED <<Params, pending, exit_status, licenses, lic_log, messages, cursor>>

evp_msg ==
    /\ pc = "evp_msg"
    /\ AddMessage("Extract Values to Points completed successfully...")
    /\ pc' = "evp_finally"
    /\ UNCHANGED <<Params, pending, exit_status, licenses, lic_log, calls, result, datasets, cursor>>

\* except LicenseError: AddError; sys.exit(0)
evp_except_license ==
    /\ pc = "evp_except_license"
    /\ AddError("*Spatial Analyst License is Unavailable*")
    /\ pending' = "SystemExit"
    /\ pc' = "evp_finally"
    /\ UNCHANGED <<Params, exit_status, licenses, lic_log, calls, result, datasets, cursor>>

\* except arcpy.ExecuteError: AddError; sys.exit(0)
evp_except_exec ==
    /\ pc = "evp_except_exec"
    /\ AddError("Error druing Extract Values to Points")
    /\ pending' = "SystemExit"
    /\ pc' = "evp_finally"
    /\ UNCHANGED <<Params, exit_status, licenses, lic_log, calls, result, datasets, cursor>>

\* Faulty variant of evp_finally: the check-in is done only when the run is
\* about to exit, so Spatial stays checked out into stage 2.
evp_finally_checkin_on_exit_only ==
    /\ pc = "evp_finally"
    /\ IF pending = "SystemExit"
       THEN /\ licenses' = licenses \ {"Spatial"}
            /\ lic_log' = Append(lic_log, LicCall("CheckInExtension", "Spatial"))
            /\ pc' = "done"
            /\ exit_status' = "SystemExit"
       ELSE /\ pc' = "idw_check"
            /\ UNCHANGED <<licenses, lic_log, exit_status>>
    /\ UNCHANGED <<Params, pending, calls, result, messages, datasets, cursor>>

\* Faulty variant of evp_finally: the check-in is guarded by the extension
\* being checked out.
evp_finally_checkin_if_held ==
    /\ pc = "evp_finally"
    /\ IF "Spatial" \in licenses
       THEN /\ licenses' = licenses \ {"Spatial"}
            /\ lic_log' = Append(lic_log, LicCall("CheckInExtension", "Spatial"))
       ELSE UNCHANGED <<licenses, lic_log>>
    /\ IF pending = "SystemExit"
       THEN /\ pc' = "done"
            /\ exit_status' = "SystemExit"
       ELSE /\ pc' = "idw_check"
            /\ UNCHANGED exit_status
    /\ UNCHANGED <<Params, pending, calls, result, messages, datasets, cursor>>

\* finally: arcpy.CheckInExtension('Spatial'); a pending SystemExit then ends the run
evp_finally ==
    /\ pc = "evp_finally"
    /\ licenses' = licenses \ {"Spatial"}
    /\ lic_log' = Append(lic_log, LicCall("CheckInExtension", "Spatial"))
    /\ IF pending = "SystemExit"
       THEN /\ pc' = "done"
            /\ exit_status' = "SystemExit"
       ELSE /\ pc' = "idw_check"
            /\ UNCHANGED exit_status
    /\ UNCHANGED <<Params, pending, calls, result, messages, datasets, cursor>>

----------------------------------------------------------------------------
\* Stage 2: Inverse Distance Weighted (license 'GeoStats')

\* if arcpy.CheckExtension('GeoStats') == 'Available': ... else: raise LicenseError
idw_check ==
    /\ pc = "idw_check"
    /\ \E status \in {"Available", "Unavailable"} :
         /\ lic_log' = Append(lic_log, LicCall("CheckExtension", "GeoStats"))
         /\ IF status = "Available"
            THEN /\ pc' = "idw_checkout"
                 /\ UNCHANGED result
            ELSE /\ pc' = "idw_except_license"
                 /\ result' = [result EXCEPT !["IDW"] = "LicenseError"]
    /\ UNCHANGED <<Params, pending, exit_status, licenses, calls, messages, datasets, cursor>>

idw_checkout ==
    /\ pc = "idw_checkout"
    /\ licenses' = licenses \cup {"GeoStats"}
    /\ lic_log' = Append(lic_log, LicCall("CheckOutExtension", "GeoStats"))
    /\ pc' = "idw_exec"
    /\ UNCHANGED <<Params, pending, exit_status, calls, result, messages, datasets, cursor>>

\* arcpy.IDW_ga(...): returns, or raises ExecuteError
idw_exec ==
    /\ pc = "idw_exec"
    /\ calls' = Append(calls, Call("IDW", {idw_in_pt_features}, idw_out_raster))
    /\ \/ /\ datasets' = Written(idw_out_raster, <<>>)
          /\ result' = [result EXCEPT !["IDW"] = "ok"]
          /\ pc' = "idw_msg"
       \/ /\ result' = [result EXCEPT !["IDW"] = "ExecuteError"]
          /\ pc' = "idw_except_exec"
          /\ UNCHANGED datasets
    /\ UNCHANGED <<Params, pending, exit_status, licenses, lic_log, messages, cursor>>

idw_msg ==
    /\ pc = "idw_msg"
    /\ AddMessage("Inverse Distance Weighted completed successfully...")
    /\ pc' = "idw_finally"
    /\ UNCHANGED <<Params, pending, exit_status, licenses, lic_log, calls, result, datasets, cursor>>

\* Faulty variant of idw_except_license: the error is added but sys.exit(0)
\* is missing, so the script goes on after the finally block.
idw_except_license_continues ==
    /\ pc = "idw_except_license"
    /\ AddError("*Geostatistical Analyst License is Unavailable*")
    /\ pc' = "idw_finally"
    /\ UNCHANGED <<Params, pending, exit_status, licenses, lic_log, calls, result, datasets, cursor>>

\* except LicenseError: AddError; sys.exit(0)
idw_except_license ==
    /\ pc = "idw_except_license"
    /\ AddError("*Geostatistical Analyst License is Unavailable*")
    /\ pending' = "SystemExit"
    /\ pc' = "idw_finally"
    /\ UNCHANGED <<Params, exit_status, licenses, lic_log, calls, result, datasets, cursor>>

\* except arcpy.ExecuteError: AddError; sys.exit(0)
idw_except_exec ==
    /\ pc = "idw_except_exec"
    /\ AddError("Error during Inverse Distance Weighted")
    /\ pending' = "SystemExit"
    /\ pc' = "idw_finally"
    /\ UNCHANGED <<Params, exit_status, licenses, lic_log, calls, result, datasets, cursor>>

\* Faulty variant of idw_finally: sys.exit ends the run without running the
\* finally block.
idw_finally_skipped_on_exit ==
    /\ pc = "idw_finally"
    /\ IF pending = "SystemExit"
       THEN /\ pc' = "done"
            /\ exit_status' = "SystemExit"
            /\ UNCHANGED <<licenses, lic_log>>
       ELSE /\ licenses' = licenses \ {"GeoStats"}
            /\ lic_log' = Append(lic_log, LicCall("CheckInExtension", "GeoStats"))
            /\ pc' = "rtp_exec"
            /\ UNCHANGED exit_status
    /\ UNCHANGED <<Params, pending, calls, result, messages, datasets, cursor>>

\* finally: arcpy.CheckInExtension('GeoStats'); a pending SystemExit then ends the run
idw_finally ==
    /\ pc = "idw_finally"
    /\ licenses' = licenses \ {"GeoStats"}
    /\ lic_log' = Append(lic_log, LicCall("CheckInExtension", "GeoStats"))
    /\ IF pending = "SystemExit"
       THEN /\ pc' = "done"
            /\ exit_status' = "SystemExit"
       ELSE /\ pc' = "rtp_exec"
            /\ UNCHANGED exit_status
    /\ UNCHANGED <<Params, pending, calls, result, messages, datasets, cursor>>

----------------------------------------------------------------------------
\* Stage 3: Raster to Point

\* arcpy.RasterToPoint_conversion(...): returns, or raises ExecuteError
rtp_exec ==
    /\ pc = "rtp_exec"
    /\ calls' = Append(calls, Call("RTP", {rtp_in_raster}, rtp_out_pt))
    /\ \/ /\ datasets' = Written(rtp_out_pt, <<>>)
          /\ result' = [result EXCEPT !["RTP"] = "ok"]
          /\ pc' = "rtp_msg"
       \/ /\ result' = [result EXCEPT !["RTP"] = "ExecuteError"]
          /\ pc' = "rtp_except"
          /\ UNCHANGED datasets
    /\ UNCHANGED <<Params, pending, exit_status, licenses, lic_log, messages, cursor>>

rtp_msg ==
    /\ pc = "rtp_msg"
    /\ AddMessage("Raster to Point completed successfully...")
    /\ pc' = "af_exec"
    /\ UNCHANGED <<Params, pending, exit_status, licenses, lic_log, calls, result, datasets, cursor>>

\* except arcpy.ExecuteError: AddError; sys.exit(0) (no finally: the run ends)
rtp_except ==
    /\ pc = "rtp_except"
    /\ AddError("Error during Raster to Point")
    /\ pc' = "done"
    /\ exit_status' = "SystemExit"
    /\ UNCHANGED <<Params, pending, licenses, lic_log, calls, result, datasets, cursor>>

----------------------------------------------------------------------------
\* Stage 4: Add Field

\* arcpy.AddField_management(af_in_features, 'DEPTH', ...): returns, or raises
\* ExecuteError.  The field is added in place; no message follows success.
af_exec ==
    /\ pc = "af_exec"
    /\ calls' = Append(calls, Call("AF", {af_in_features}, af_in_features))
    /\ \/ /\ result' = [result EXCEPT !["AF"] = "ok"]
          /\ pc' = "uc_open"
       \/ /\ result' = [result EXCEPT !["AF"] = "ExecuteError"]
          /\ pc' = "af_except"
    /\ UNCHANGED <<Params, pending, exit_status, licenses, lic_log, messages, datasets, cursor>>

\* Faulty variant of af_except: the error is added but sys.exit(0) is
\* missing, so the script goes on to Update Cursor.
af_except_continues ==
    /\ pc = "af_except"
    /\ AddError("Error during Add Field")
    /\ pc' = "uc_open"
    /\ UNCHANGED <<Params, pending, exit_status, licenses, lic_log, calls, result, datasets, cursor>>

\* except arcpy.ExecuteError: AddError; sys.exit(0)
af_except ==
    /\ pc = "af_except"
    /\ AddError("Error during Add Field")
    /\ pc' = "done"
    /\ exit_status' = "SystemExit"
    /\ UNCHANGED <<Params, pending, licenses, lic_log, calls, result, datasets, cursor>>

----------------------------------------------------------------------------
\* Stage 5: Update Cursor

\* rows the cursor on uc_fc iterates over
uc_rows == IF uc_fc \in DOMAIN datasets THEN datasets[uc_fc] ELSE <<>>

\* Faulty variant of Depth: the operands are swapped (row[2] - row[1]).
Depth_reversed(row) == << row.ELEVATION[1] - row.RASTERVALU[1] >>

\* row[1] - row[2]
Depth(row) == << row.RASTERVALU[1] - row.ELEVATION[1] >>

\* with arcpy.da.UpdateCursor(uc_fc, uc_fields) as cursor: opens, or raises ExecuteError
uc_open ==
    /\ pc = "uc_open"
    /\ calls' = Append(calls, Call("UC", {uc_fc}, uc_fc))
    /\ \/ /\ cursor' = 1
          /\ pc' = "uc_loop"
          /\ UNCHANGED result
       \/ /\ result' = [result EXCEPT !["UC"] = "ExecuteError"]
          /\ pc' = "uc_except"
          /\ UNCHANGED cursor
    /\ UNCHANGED <<Params, pending, exit_status, licenses, lic_log, messages, datasets>>

\* for row in cursor: row[0] = row[1] - row[2]; cursor.updateRow(row)
\* Subtracting with a None operand raises TypeError, which no except clause
\* of the stage names: the run ends with a traceback.
uc_for_row ==
    /\ pc = "uc_loop"
    /\ cursor \in 1..Len(uc_rows)
    /\ LET row == uc_rows[cursor] IN
       IF row.RASTERVALU = None \/ row.ELEVATION = None
       THEN /\ result' = [result EXCEPT !["UC"] = "TypeError"]
            /\ pc' = "done"
            /\ exit_status' = "Traceback"
            /\ cursor' = 0
            /\ UNCHANGED datasets
       ELSE \/ /\ datasets' = Written(uc_fc, [uc_rows EXCEPT ![cursor].DEPTH = Depth(row)])
               /\ cursor' = cursor + 1
               /\ UNCHANGED <<pc, result, exit_status>>
            \/ /\ result' = [result EXCEPT !["UC"] = "ExecuteError"]
               /\ pc' = "uc_except"
               /\ cursor' = 0
               /\ UNCHANGED <<datasets, exit_status>>
    /\ UNCHANGED <<Params, pending, licenses, lic_log, calls, messages>>

\* the loop is exhausted and the with block is left
uc_with_exit ==
    /\ pc = "uc_loop"
    /\ cursor > Len(uc_rows)
    /\ cursor' = 0
    /\ result' = [result EXCEPT !["UC"] = "ok"]
    /\ pc' = "sj_exec"
    /\ UNCHANGED <<Params, pending, exit_status, licenses, lic_log, calls, messages, datasets>>

\* except arcpy.ExecuteError: AddError; sys.exit(0)
uc_except ==
    /\ pc = "uc_except"
    /\ AddError("Error during Update Cursor")
    /\ pc' = "done"
    /\ exit_status' = "SystemExit"
    /\ UNCHANGED <<Params, pending, licenses, lic_log, calls, result, datasets, cursor>>

----------------------------------------------------------------------------
\* Stage 6: Spatial Join

\* arcpy.SpatialJoin_analysis(...): returns, or raises ExecuteError
sj_exec ==
    /\ pc = "sj_exec"
    /\ calls' = Append(calls, Call("SJ", {sj_target_features, sj_join_features}, sj_outfc))
    /\ \/ /\ datasets' = Written(sj_outfc, <<>>)
          /\ result' = [result EXCEPT !["SJ"] = "ok"]
          /\ pc' = "sj_msg"
       \/ /\ result' = [result EXCEPT !["SJ"] = "ExecuteError"]
          /\ pc' = "sj_except"
          /\ UNCHANGED datasets
    /\ UNCHANGED <<Params, pending, exit_status, licenses, lic_log, messages, cursor>>

\* the last statement of the script
sj_msg ==
    /\ pc = "sj_msg"
    /\ AddMessage("Spatial Join completed successfully...")
    /\ pc' = "done"
    /\ exit_status' = "completed"
    /\ UNCHANGED <<Params, pending, licenses, lic_log, calls, result, datasets, cursor>>

\* except arcpy.ExecuteError: AddError; sys.exit(0)
sj_except ==
    /\ pc = "sj_except"
    /\ AddError("Error during Spatial Join")
    /\ pc' = "done"
    /\ exit_status' = "SystemExit"
    /\ UNCHANGED <<Params, pending, licenses, lic_log, calls, result, datasets, cursor>>

----------------------------------------------------------------------------
Next ==
    \/ evp_check \/ evp_checkout \/ evp_exec \/ evp_msg
    \/ evp_except_license \/ evp_except_exec \/ evp_finally
    \/ idw_check \/ idw_checkout \/ idw_exec \/ idw_msg
    \/ idw_except_license \/ idw_except_exec \/ idw_finally
    \/ rtp_exec \/ rtp_msg \/ rtp_except
    \/ af_exec \/ af_except
    \/ uc_open \/ uc_for_row \/ uc_with_exit \/ uc_except
    \/ sj_exec \/ sj_msg \/ sj_except

Spec == Init /\ [][Next]_vars

----------------------------------------------------------------------------
\* Vocabulary of the properties

LicensedStages == {"EVP", "IDW"}
Ext == [EVP |-> "Spatial", IDW |-> "GeoStats"]

StageIdx(s) == CHOOSE i \in 1..Len(StageOrder) : StageOrder[i] = s

\* the stage each position of the script belongs to
PcStage ==
    [ evp_check |-> "EVP", evp_checkout |-> "EVP", evp_exec |-> "EVP", evp_msg |-> "EVP",
      evp_except_license |-> "EVP", evp_except_exec |-> "EVP", evp_finally |-> "EVP",
      idw_check |-> "IDW", idw_checkout |-> "IDW", idw_exec |-> "IDW", idw_msg |-> "IDW",
      idw_except_license |-> "IDW", idw_except_exec |-> "IDW", idw_finally |-> "IDW",
      rtp_exec |-> "RTP", rtp_msg |-> "RTP", rtp_except |-> "RTP",
      af_exec |-> "AF", af_except |-> "AF",
      uc_open |-> "UC", uc_loop |-> "UC", uc_except |-> "UC",
      sj_exec |-> "SJ", sj_msg |-> "SJ", sj_except |-> "SJ" ]

\* the error messages each stage's handlers add
ErrorTexts ==
    [ EVP |-> {"*Spatial Analyst License is Unavailable*", "Error druing Extract Values to Points"},
      IDW |-> {"*Geostatistical Analyst License is Unavailable*", "Error during Inverse Distance Weighted"},
      RTP |-> {"Error during Raster to Point"},
      AF  |-> {"Error during Add Field"},
      UC  |-> {"Error during Update Cursor"},
      SJ  |-> {"Error during Spatial Join"} ]

LicenseTexts ==
    [ EVP |-> "*Spatial Analyst License is Unavailable*",
      IDW |-> "*Geostatistical Analyst License is Unavailable*" ]

Invoked(s) == \E i \in 1..Len(calls) : calls[i].op = s
CallOf(s) == calls[CHOOSE i \in 1..Len(calls) : calls[i].op = s]
LaterInvoked(s) == \E t \in Stages : StageIdx(t) > StageIdx(s) /\ Invoked(t)

LicIdx(fn, ext) == { i \in 1..Len(lic_log) : lic_log[i] = LicCall(fn, ext) }
Entered(s) == LicIdx("CheckExtension", Ext[s]) # {}
\* the script has left stage s: it ended, or it is in a later stage
Left(s) == pc = "done" \/ StageIdx(PcStage[pc]) > StageIdx(s)
Failed(s) == result[s] \notin {"none", "ok"}
ErrorLogged(s) ==
    \E i \in 1..Len(messages) : messages[i].kind = "Error" /\ messages[i].text \in ErrorTexts[s]

----------------------------------------------------------------------------
\* Properties

\* C1: for each licensed stage, once the stage has been left on any path
\* (success, ExecuteError, license unavailable, sys.exit) its extension is
\* checked in: it is not held when a later stage runs, no later operation is
\* invoked while it is held, and no run ends with a license checked out.
C1_LicenseReleasedOnEveryExit ==
    /\ pc = "done" => licenses = {}
    /\ \A s \in LicensedStages :
         /\ (Entered(s) /\ Left(s)) =>
               /\ Ext[s] \notin licenses
               /\ LicIdx("CheckInExtension", Ext[s]) # {}
               /\ \A o \in LicIdx("CheckOutExtension", Ext[s]) :
                     \E i \in LicIdx("CheckInExtension", Ext[s]) : i > o
         /\ Ext[s] \in licenses => ~LaterInvoked(s)

\* C1 witness: the IDW tool failed with GeoStats checked out, the run ended
\* through sys.exit, and the license had been checked in.
C1_Witness ==
    /\ pc = "done" /\ exit_status = "SystemExit"
    /\ result["IDW"] = "ExecuteError"
    /\ LicIdx("CheckOutExtension", "GeoStats") # {}
    /\ LicIdx("CheckInExtension", "GeoStats") # {}

\* C2 (as claimed): once any stage has failed, no later stage's operation is
\* invoked and, when the run has ended, an error message of that stage has
\* been added.
C2_AnyFailureLogsAndHalts ==
    \A s \in Stages :
        Failed(s) => /\ ~LaterInvoked(s)
                     /\ pc = "done" => ErrorLogged(s)

\* C3: once Update Cursor has completed without error, every row of the
\* feature class written by Extract Values to Points has
\* DEPTH = RASTERVALU - ELEVATION.
C3_DepthIsSurfaceMinusSeam ==
    result["UC"] = "ok" =>
        /\ evp_out_pt_features \in DOMAIN datasets
        /\ \A i \in 1..Len(datasets[evp_out_pt_features]) :
             LET row == datasets[evp_out_pt_features][i] IN
               /\ row.RASTERVALU # None /\ row.ELEVATION # None /\ row.DEPTH # None
               /\ row.DEPTH[1] = row.RASTERVALU[1] - row.ELEVATION[1]

\* C3 witness: Update Cursor completed over at least two rows, one of them
\* with a surface above the seam and one with the seam above the surface.
C3_Witness ==
    /\ result["UC"] = "ok"
    /\ evp_out_pt_features \in DOMAIN datasets
    /\ Len(datasets[evp_out_pt_features]) >= 2
    /\ \E i, j \in 1..Len(datasets[evp_out_pt_features]) :
         /\ datasets[evp_out_pt_features][i].DEPTH = <<1>>
         /\ datasets[evp_out_pt_features][j].DEPTH = <<-1>>

\* C4: the operations are invoked in the fixed order EVP, IDW, RTP, AF, UC,
\* SJ, each at most once, and each only after the previous stage's operation
\* returned without error.
C4_StrictSequence ==
    /\ Len(calls) <= Len(StageOrder)
    /\ \A i \in 1..Len(calls) :
         /\ calls[i].op = StageOrder[i]
         /\ i > 1 => result[StageOrder[i - 1]] = "ok"
    /\ \A s \in Stages : result[s] # "none" /\ result[s] # "LicenseError" => Invoked(s)

\* C4 witness: all six operations have been invoked and the run completed.
C4_Witness ==
    /\ Len(calls) = Len(StageOrder)
    /\ exit_status = "completed"

\* C5 (as claimed): for every N in 1..5 the dataset step N writes is a dataset
\* step N+1 reads.
C5_EveryStepFeedsNext ==
    \A n \in 1..(Len(StageOrder) - 1) :
        (Invoked(StageOrder[n]) /\ Invoked(StageOrder[n + 1])) =>
            CallOf(StageOrder[n]).out \in CallOf(StageOrder[n + 1]).ins

\* C5 (amended): the dataset step 1 writes is the one step 2 reads, and the
\* one step 2 writes is the one step 3 reads; the dataset step 3 writes is
\* read by step 6, and the dataset step 1 writes is read by step 5.
C5_Dataflow ==
    /\ \A n \in 1..2 :
         (Invoked(StageOrder[n]) /\ Invoked(StageOrder[n + 1])) =>
             CallOf(StageOrder[n + 1]).ins = {CallOf(StageOrder[n]).out}
    /\ Invoked("SJ") => CallOf("RTP").out \in CallOf("SJ").ins
    /\ Invoked("UC") => CallOf("UC").ins = {CallOf("EVP").out}

\* C5 witness: Spatial Join has been invoked on the points Raster to Point
\* wrote, after Update Cursor was opened on the output of step 1.
C5_Witness ==
    /\ Invoked("SJ")
    /\ CallOf("RTP").out \in CallOf("SJ").ins
    /\ CallOf("UC").ins = {CallOf("EVP").out}
    /\ CallOf("RTP").ins = {CallOf("IDW").out}

\* C6: when the extension of stage 1 or 2 is not 'Available', the extension
\* is never checked out, the stage's operation is not invoked, the
\* license-unavailable error is added, and the run ends through sys.exit
\* with no later stage run.
C6_LicenseUnavailable ==
    \A s \in LicensedStages :
        result[s] = "LicenseError" =>
            /\ LicIdx("CheckOutExtension", Ext[s]) = {}
            /\ Ext[s] \notin licenses
            /\ ~Invoked(s)
            /\ ~LaterInvoked(s)
            /\ pc = "done" \/ PcStage[pc] = s
            /\ (pc = "done" \/ pending = "SystemExit") =>
                  \E i \in 1..Len(messages) : messages[i] = Msg("Error", LicenseTexts[s])
            /\ pc = "done" => exit_status = "SystemExit"

\* C6 witness: GeoStats was unavailable at stage 2 and the run has ended.
C6_Witness ==
    /\ result["IDW"] = "LicenseError"
    /\ result["EVP"] = "ok"
    /\ pc = "done"

\* C7 (as claimed): the path Add Field operates on is the path Extract Values
\* to Points wrote, and the path Update Cursor reads.
C7_AddFieldOnExtractOutput ==
    Invoked("AF") =>
        /\ CallOf("AF").ins = {CallOf("EVP").out}
        /\ Invoked("UC") => CallOf("AF").out \in CallOf("UC").ins

\* C8: at most one extension is checked out at any time, Spatial is not held
\* from the moment stage 2 starts (so it is checked in before GeoStats is
\* checked out), and none is held while a later stage runs or has failed.
C8_LicenseHeldOnlyInOwnStage ==
    /\ Cardinality(licenses) <= 1
    /\ \A o \in LicIdx("CheckOutExtension", "GeoStats") :
         \E i \in LicIdx("CheckInExtension", "Spatial") :
            /\ i < o
            /\ \A k \in LicIdx("CheckOutExtension", "Spatial") : k < i
    /\ \A s \in LicensedStages :
         Ext[s] \in licenses => pc # "done" /\ PcStage[pc] = s
    /\ \A s \in Stages \ LicensedStages :
         (result[s] # "none" \/ (pc # "done" /\ PcStage[pc] = s)) => licenses = {}

\* C8 witness: GeoStats is checked out after Spatial had been checked out and in.
C8_Witness ==
    /\ licenses = {"GeoStats"}
    /\ LicIdx("CheckOutExtension", "Spatial") # {}
    /\ LicIdx("CheckInExtension", "Spatial") # {}

\* C9: CheckInExtension is invoked exactly once for each licensed stage that
\* was entered and left, never for a stage not entered, also when the
\* extension was unavailable and CheckOutExtension was never invoked.
C9_CheckInUnconditional ==
    \A s \in LicensedStages :
        /\ Cardinality(LicIdx("CheckInExtension", Ext[s])) <= 1
        /\ LicIdx("CheckInExtension", Ext[s]) # {} => Entered(s)
        /\ (Entered(s) /\ Left(s)) => Cardinality(LicIdx("CheckInExtension", Ext[s])) = 1

\* C9 witness: Spatial was unavailable, the run ended, and Spatial was
\* checked in although nothing was ever checked out.
C9_Witness ==
    /\ pc = "done"
    /\ result["EVP"] = "LicenseError"
    /\ LicIdx("CheckInExtension", "Spatial") # {}
    /\ \A i \in 1..Len(lic_log) : lic_log[i].fn # "CheckOutExtension"
====
